---- MODULE Spec2Model ----
(***************************************************************************)
(* Model of the exercise grader of src/src/main.rs: one session of main,   *)
(* from argument parsing to the written report.  The external toolchain    *)
(* (cargo, rustc, the compiled artifact), the file system and the standard *)
(* input are the environment: every invocation, listing and input line is  *)
(* a nondeterministic choice over the outcomes the code distinguishes.     *)
(***************************************************************************)
EXTENDS Integers, Sequences, FiniteSets, TLC

\* Bounds of the model.
MaxEntries == 2   \* entries directly inside the exercises directory
MaxFiles == 2     \* files directly inside one container directory

VARIABLES
    mode,           \* args[1], or "none" when args.len() < 2
    entries,        \* the listing of the exercises directory, in read_dir order
    pc,             \* position of main
    exitCode,       \* "running", or the exit code of the process: "0", "1", "101" (panic)
    panicMsg,       \* the message of the panic that ended the process, or "none"
    scanErr,        \* scan_directory returned Err
    exercise_dirs,  \* result of scan_directory: indices into entries
    ci,             \* position of the outer for loop in exercise_dirs
    rs_files,       \* result of get_rs_files_in_directory for the current container
    fi,             \* position of the inner for loop in rs_files
    report,         \* the Report under construction
    reportFile,     \* report.json: whether it was written, and the Report serialized
    lastCmds,       \* the commands the evaluation of the current unit spawned, in order
    input,          \* the line ask_to_continue has just read
    lastQuit,       \* the last quit of the iteration: its container and the files evaluated then
    toolRun,        \* an external command has been spawned in this session
    cleanRan,       \* clean_target_dirs has been called
    targets,        \* the entries of the listing clean_target_dirs read that held a target directory
    attempted,      \* the entries whose target directory clean_target_dirs tried to remove
                    \* (both describe the state right after clean_target_dirs, pc = "save")
    cleanErr        \* clean_target_dirs returned Err

\* The environment, the control state, the loops, the ghost record of the
\* iteration, and the record of the cleanup.
envVars == << mode, entries >>
exitVars == << exitCode, panicMsg >>
loopVars == << ci, rs_files, fi >>
unitVars == << lastCmds, input, lastQuit >>
cleanVars == << cleanRan, targets, attempted, cleanErr >>

vars == << envVars, pc, exitVars, scanErr, exercise_dirs, loopVars, report, reportFile,
           unitVars, toolRun, cleanVars >>

----------------------------------------------------------------------------
\* The environment.

\* args[1] as the code distinguishes it (lines 33, 62, 103, 137).
Modes == {"none", "watch", "all", "other"}

\* Outcome of spawning one external command: exit status success, exit status
\* failure, or the command could not be launched (Command::output returned Err).
Outcome == {"ok", "fail", "launchfail"}

RECURSIVE SeqsUpTo(_, _)
SeqsUpTo(S, n) ==
    IF n = 0 THEN {<< >>}
    ELSE LET shorter == SeqsUpTo(S, n - 1)
         IN  shorter \cup {Append(s, x) : s \in {t \in shorter : Len(t) = n - 1}, x \in S}

\* A file directly inside a container: its extension is "rs" or something else.
FileKinds == {"rs", "other"}

\* The listings of a container: up to MaxFiles .rs files, and the listings
\* that mix in a file of another extension before, after or instead of one.
Listings ==
    SeqsUpTo({"rs"}, MaxFiles)
    \cup {<<"other">>, <<"other", "rs">>, <<"rs", "other">>}

\* One entry of the exercises directory: a plain file, or a directory with or
\* without Cargo.toml, whose own listing can or cannot be read.
Entry ==
    {[kind |-> "file", cargo |-> FALSE, readable |-> TRUE, files |-> << >>]}
    \cup {[kind |-> "dir", cargo |-> TRUE, readable |-> TRUE, files |-> << >>]}
    \cup {[kind |-> "dir", cargo |-> FALSE, readable |-> FALSE, files |-> << >>]}
    \cup {[kind |-> "dir", cargo |-> FALSE, readable |-> TRUE, files |-> f] :
            f \in Listings}

\* Values of start_time.elapsed().as_secs() the model distinguishes.
Elapsed == {0, 1}

\* Characters of an input line, and the lines the user may type.
Whitespace == {" ", "\n"}
Lines ==
    { << >>, <<"\n">>, <<"q", "\n">>, <<"Q", "\n">>, <<" ", "q", " ", "\n">>,
      <<"q", "q", "\n">>, <<"y", "\n">> }

----------------------------------------------------------------------------
\* Pure functions of the program.

\* Path::is_dir of entry i.
is_dir(i) == entries[i].kind = "dir"

\* The positions of a listing of n entries, in listing order.
Positions(n) == [i \in 1..n |-> i]

\* scan_directory: the entries that are directories, in listing order.
scan_directory == SelectSeq(Positions(Len(entries)), is_dir)

\* Mutant of get_rs_files_in_directory: the files are returned last first.
get_rs_files_in_directory_reversed(d) ==
    IF entries[d].readable
    THEN LET IsRs(j) == entries[d].files[j] = "rs"
             found == SelectSeq(Positions(Len(entries[d].files)), IsRs)
         IN  [i \in 1..Len(found) |-> found[Len(found) + 1 - i]]
    ELSE << >>

\* Mutant of get_rs_files_in_directory: the extension is not examined.
get_rs_files_in_directory_nofilter(d) ==
    IF entries[d].readable THEN Positions(Len(entries[d].files)) ELSE << >>

\* get_rs_files_in_directory: the files of directory d with extension rs, in
\* listing order; the empty list when the directory cannot be read.
get_rs_files_in_directory(d) ==
    IF entries[d].readable
    THEN LET IsRs(j) == entries[d].files[j] = "rs"
         IN  SelectSeq(Positions(Len(entries[d].files)), IsRs)
    ELSE << >>

\* run_cargo_command: true iff the command was launched and exited with success.
run_cargo_command(o) == o = "ok"

\* Mutant of evaluate_cargo_project: the clippy result is left out of the verdict.
evaluate_cargo_project_noclippy(build, test, clippy) ==
    run_cargo_command(build) /\ run_cargo_command(test)

\* evaluate_cargo_project: build, test and clippy are all run, then conjoined.
evaluate_cargo_project(build, test, clippy) ==
    LET build_result == run_cargo_command(build)
        test_result == run_cargo_command(test)
        clippy_result == run_cargo_command(clippy)
    IN  build_result /\ test_result /\ clippy_result

\* Mutant of CargoProjectCmds: the commands stop at the first that does not
\* succeed.
CargoProjectCmds_shortcircuit(build, test, clippy) ==
    << [cmd |-> "cargo build", outcome |-> build] >>
    \o (IF build = "ok" THEN << [cmd |-> "cargo test", outcome |-> test] >> ELSE << >>)
    \o (IF build = "ok" /\ test = "ok"
        THEN << [cmd |-> "cargo clippy", outcome |-> clippy] >> ELSE << >>)

\* The commands evaluate_cargo_project spawns, in order.
CargoProjectCmds(build, test, clippy) ==
    << [cmd |-> "cargo build", outcome |-> build],
       [cmd |-> "cargo test", outcome |-> test],
       [cmd |-> "cargo clippy", outcome |-> clippy] >>

\* Mutant of run_rustc_command: the exit status of rustc is not examined.
run_rustc_command_nostatus(rustc, exec) ==
    IF rustc = "launchfail" THEN "Err"
    ELSE IF exec # "ok" THEN "Err"
    ELSE "Ok"

\* run_rustc_command: Ok iff rustc was launched and succeeded and the compiled
\* file was launched and succeeded; the compiled file is run only after a
\* successful compilation.
run_rustc_command(rustc, exec) ==
    IF rustc # "ok" THEN "Err"
    ELSE IF exec # "ok" THEN "Err"
    ELSE "Ok"

\* The commands run_rustc_command spawns, in order.
RustcCmds(rustc, exec) ==
    IF rustc # "ok" THEN << [cmd |-> "rustc", outcome |-> rustc] >>
    ELSE << [cmd |-> "rustc", outcome |-> rustc], [cmd |-> "exec", outcome |-> exec] >>

\* Mutant of evaluate_single_file: a file passes only if the unit recorded
\* before it passed too.
evaluate_single_file_sticky(rustc, exec) ==
    /\ run_rustc_command(rustc, exec) = "Ok"
    /\ \/ report.exercises = << >>
       \/ report.exercises[Len(report.exercises)].result

\* evaluate_single_file
evaluate_single_file(rustc, exec) == run_rustc_command(rustc, exec) = "Ok"

RECURSIVE TrimStart(_)
TrimStart(s) ==
    IF s # << >> /\ Head(s) \in Whitespace THEN TrimStart(Tail(s)) ELSE s

RECURSIVE TrimEnd(_)
TrimEnd(s) ==
    IF s # << >> /\ s[Len(s)] \in Whitespace THEN TrimEnd(SubSeq(s, 1, Len(s) - 1)) ELSE s

\* str::trim
trim(s) == TrimEnd(TrimStart(s))

\* str::to_lowercase
to_lowercase(s) ==
    [i \in 1..Len(s) |-> CASE s[i] = "Q" -> "q" [] s[i] = "Y" -> "y" [] OTHER -> s[i]]

\* ask_to_continue's result for the line read: false iff the line is a quit.
ContinueDecision(line) == to_lowercase(trim(line)) # <<"q">>

\* Mutant of PushResult: a failed unit is appended but not counted.
PushResult_failureuncounted(r, name, result) ==
    [r EXCEPT !.exercises = Append(@, [name |-> name, result |-> result]),
              !.total_succeeds = IF result THEN @ + 1 ELSE @]

\* report.exercises.push(..) followed by the counter update of the loop body.
PushResult(r, name, result) ==
    [r EXCEPT !.exercises = Append(@, [name |-> name, result |-> result]),
              !.total_succeeds = IF result THEN @ + 1 ELSE @,
              !.total_failures = IF result THEN @ ELSE @ + 1]

\* Mutant of FinalTotal: the failures are left out of the total.
FinalTotal_nofailures(r) == r.total_succeeds

\* The statistics fix-up of main before the report is written.
FinalTotal(r) == r.total_succeeds + r.total_failures

RECURSIVE CleanWalk(_, _, _)
\* clean_target_dirs from entry i on: T are the entries holding a target
\* directory, F those whose target cannot be removed.  The walk returns at the
\* first removal that fails.
CleanWalk(i, T, F) ==
    IF i > Len(entries) THEN [attempted |-> {}, err |-> FALSE]
    ELSE IF is_dir(i) /\ i \in T
         THEN IF i \in F
              THEN [attempted |-> {i}, err |-> TRUE]
              ELSE LET rest == CleanWalk(i + 1, T, F)
                   IN  [attempted |-> {i} \cup rest.attempted, err |-> rest.err]
         ELSE CleanWalk(i + 1, T, F)

----------------------------------------------------------------------------
\* The session.

\* No quit has been read.
NoQuit == [dir |-> 0, files |-> 0]

EmptyReport ==
    [exercises |-> << >>, user_name |-> "None", total_exercations |-> 0,
     total_succeeds |-> 0, total_failures |-> 0, total_time |-> 0]

Init ==
    /\ mode \in Modes
    /\ entries \in SeqsUpTo(Entry, MaxEntries)
    /\ pc = "start"
    /\ exitCode = "running"
    /\ panicMsg = "none"
    /\ scanErr = FALSE
    /\ exercise_dirs = << >>
    /\ ci = 0
    /\ rs_files = << >>
    /\ fi = 0
    /\ report = EmptyReport
    /\ reportFile = [written |-> FALSE, content |-> EmptyReport]
    /\ lastCmds = << >>
    /\ input = << >>
    /\ lastQuit = NoQuit
    /\ toolRun = FALSE
    /\ cleanRan = FALSE
    /\ targets = {}
    /\ attempted = {}
    /\ cleanErr = FALSE

\* exit(code), or main returning: the process ends where it stands.
Exit(code) ==
    /\ pc' = "exited"
    /\ exitCode' = code
    /\ UNCHANGED panicMsg

\* A panic: the process ends with code 101 and the message of the panic.
Panic(msg) ==
    /\ pc' = "exited"
    /\ exitCode' = "101"
    /\ panicMsg' = msg

\* main goes on to position p.
Goto(p) ==
    /\ pc' = p
    /\ UNCHANGED exitVars

\* main, lines 30-38: the mode selector must be present.
ParseArgs ==
    /\ pc = "start"
    /\ IF mode = "none" THEN Exit("1") ELSE Goto("scan")
    /\ UNCHANGED << envVars, scanErr, exercise_dirs, loopVars, report, reportFile,
                    unitVars, toolRun, cleanVars >>

\* Mutant of ScanDirectory: a failed scan is taken for an empty directory.
ScanDirectory_default ==
    /\ pc = "scan"
    /\ \E ok \in BOOLEAN :
          /\ exercise_dirs' = IF ok THEN scan_directory ELSE << >>
          /\ scanErr' = ~ok
          /\ Goto("dispatch")
    /\ UNCHANGED << envVars, loopVars, report, reportFile, unitVars, toolRun, cleanVars >>

\* main, lines 42-48: scan the exercises directory; an Err is fatal.
ScanDirectory ==
    /\ pc = "scan"
    /\ \E ok \in BOOLEAN :
          IF ok
          THEN /\ exercise_dirs' = scan_directory
               /\ Goto("dispatch")
               /\ UNCHANGED scanErr
          ELSE /\ scanErr' = TRUE
               /\ Exit("1")
               /\ UNCHANGED exercise_dirs
    /\ UNCHANGED << envVars, loopVars, report, reportFile, unitVars, toolRun, cleanVars >>

\* Mutant of Dispatch: the final else branch is missing, so that any mode
\* falls through to the end of main.
Dispatch_noelse ==
    /\ pc = "dispatch"
    /\ Goto("loop")
    /\ ci' = 1
    /\ UNCHANGED << envVars, scanErr, exercise_dirs, rs_files, fi, report, reportFile,
                    unitVars, toolRun, cleanVars >>

\* main, lines 62, 103, 137-140: the mode selects the loop; any other value is
\* a usage error.
Dispatch ==
    /\ pc = "dispatch"
    /\ IF mode \in {"watch", "all"}
       THEN Goto("loop") /\ ci' = 1
       ELSE Exit("1") /\ UNCHANGED ci
    /\ UNCHANGED << envVars, scanErr, exercise_dirs, rs_files, fi, report, reportFile,
                    unitVars, toolRun, cleanVars >>

\* The container the outer loop stands at, and the file the inner loop stands at.
CurDir == exercise_dirs[ci]
CurFile == rs_files[fi]

\* Display names of a container and of a file of a container.
DirName(d) == << d >>
FileName(d, j) == << d, j >>

\* The outer loop moves to the next container; the locals of its body are dropped.
NextContainer ==
    /\ ci' = ci + 1
    /\ pc' = "loop"
    /\ fi' = 0
    /\ rs_files' = << >>

\* Body of the outer loop up to the inner loop, the shared text of lines 65-80
\* and 106-121: a Cargo project is evaluated and recorded as one unit;
\* otherwise the .rs files of the directory are listed.
ContainerStep ==
    /\ pc = "loop"
    /\ ci <= Len(exercise_dirs)
    /\ IF ~is_dir(CurDir)
       THEN /\ NextContainer
            /\ lastCmds' = << >>
            /\ UNCHANGED << report, toolRun >>
       ELSE IF entries[CurDir].cargo
       THEN \E build \in Outcome, test \in Outcome, clippy \in Outcome :
               LET result == evaluate_cargo_project(build, test, clippy)
               IN  /\ report' = PushResult(report, DirName(CurDir), result)
                   /\ lastCmds' = CargoProjectCmds(build, test, clippy)
                   /\ toolRun' = TRUE
                   /\ NextContainer
       ELSE /\ IF get_rs_files_in_directory(CurDir) = << >>
               THEN NextContainer
               ELSE /\ rs_files' = get_rs_files_in_directory(CurDir)
                    /\ pc' = "file"
                    /\ fi' = 1
                    /\ UNCHANGED ci
            /\ lastCmds' = << >>
            /\ UNCHANGED << report, toolRun >>
    /\ input' = << >>
    /\ UNCHANGED << envVars, exitVars, scanErr, exercise_dirs, reportFile, lastQuit,
                    cleanVars >>

\* Mutant of WatchContainer: watch mode asks whether to continue after a
\* Cargo project too.
WatchContainer_prompts ==
    /\ mode = "watch"
    /\ IF pc = "loop" /\ ci <= Len(exercise_dirs) /\ entries[CurDir].cargo
       THEN /\ \E build \in Outcome, test \in Outcome, clippy \in Outcome :
                  /\ report' = PushResult(report, DirName(CurDir),
                                          evaluate_cargo_project(build, test, clippy))
                  /\ lastCmds' = CargoProjectCmds(build, test, clippy)
            /\ toolRun' = TRUE
            /\ pc' = "ask"
            /\ input' = << >>
            /\ UNCHANGED << envVars, exitVars, scanErr, exercise_dirs, loopVars,
                            reportFile, lastQuit, cleanVars >>
       ELSE ContainerStep

\* main, lines 64-80: the outer loop of watch mode.
WatchContainer == mode = "watch" /\ ContainerStep

\* main, lines 105-121: the outer loop of all mode.
AllContainer == mode = "all" /\ ContainerStep

\* Mutant of RecordSingleFile: the verdict recorded comes from a second run of
\* the commands, whose outcome need not be that of the first.
RecordSingleFile_rerun(rustc, exec) ==
    \E rustc2 \in Outcome, exec2 \in Outcome :
       /\ report' = PushResult(report, FileName(CurDir, CurFile),
                               evaluate_single_file(rustc2, exec2))
       /\ lastCmds' = RustcCmds(rustc, exec)
       /\ toolRun' = TRUE

\* Lines 82-91 and 123-132: one .rs file is evaluated and recorded.
RecordSingleFile(rustc, exec) ==
    LET result == evaluate_single_file(rustc, exec)
    IN  /\ report' = PushResult(report, FileName(CurDir, CurFile), result)
        /\ lastCmds' = RustcCmds(rustc, exec)
        /\ toolRun' = TRUE

\* main, lines 81-91 (watch mode): evaluate the file, then go on to print its
\* compiler output.
WatchSingleFile ==
    /\ pc = "file"
    /\ mode = "watch"
    /\ \E rustc \in Outcome, exec \in Outcome : RecordSingleFile(rustc, exec)
    /\ Goto("print_compiler")
    /\ input' = << >>
    /\ UNCHANGED << envVars, scanErr, exercise_dirs, loopVars, reportFile, lastQuit,
                    cleanVars >>

\* main, lines 122-133 (all mode): evaluate the file, then take the next one.
AllSingleFile ==
    /\ pc = "file"
    /\ mode = "all"
    /\ \E rustc \in Outcome, exec \in Outcome : RecordSingleFile(rustc, exec)
    /\ IF fi = Len(rs_files)
       THEN NextContainer
       ELSE fi' = fi + 1 /\ UNCHANGED << pc, ci, rs_files >>
    /\ UNCHANGED << envVars, exitVars, scanErr, exercise_dirs, reportFile, input,
                    lastQuit, cleanVars >>

\* Result::expect on the spawn result: a command that cannot be launched panics.
ExpectPanics(o) == o = "launchfail"

\* print_compiler_output: rustc is run once more on the file; only its launch
\* is examined, its exit status is not.
PrintCompilerOutput ==
    /\ pc = "print_compiler"
    /\ \E o \in Outcome :
          IF ExpectPanics(o) THEN Panic("Failed to execute rustc") ELSE Goto("print_cargo")
    /\ UNCHANGED << envVars, scanErr, exercise_dirs, loopVars, report, reportFile,
                    unitVars, toolRun, cleanVars >>

\* print_cargo_test_output: cargo test is run in the directory of the file;
\* only its launch is examined.
PrintCargoTestOutput ==
    /\ pc = "print_cargo"
    /\ \E o \in Outcome :
          IF ExpectPanics(o) THEN Panic("Failed to execute cargo test") ELSE Goto("ask")
    /\ UNCHANGED << envVars, scanErr, exercise_dirs, loopVars, report, reportFile,
                    unitVars, toolRun, cleanVars >>

\* Mutant of BreakInner: the answer is ignored, the inner loop is never left.
BreakInner_never(continue) == FALSE

\* main, lines 96-98: the inner loop is left when ask_to_continue returns false.
BreakInner(continue) == ~continue

\* ask_to_continue and the break of lines 96-98: a line is read (a read error
\* panics in unwrap); a quit leaves the inner loop, anything else takes the
\* next file.
AskToContinue ==
    /\ pc = "ask"
    /\ \E readOk \in BOOLEAN, line \in Lines :
          IF ~readOk
          THEN /\ Panic("read_line")
               /\ UNCHANGED << loopVars, unitVars >>
          ELSE LET continue == ContinueDecision(line)
               IN  /\ input' = line
                   /\ lastQuit' = IF continue THEN lastQuit
                                  ELSE [dir |-> CurDir, files |-> fi]
                   /\ IF BreakInner(continue) \/ fi = Len(rs_files)
                      THEN NextContainer
                      ELSE fi' = fi + 1 /\ pc' = "file" /\ UNCHANGED << ci, rs_files >>
                   /\ lastCmds' = << >>
                   /\ UNCHANGED exitVars
    /\ UNCHANGED << envVars, scanErr, exercise_dirs, report, reportFile, toolRun,
                    cleanVars >>

\* main, lines 142-146, reached when the outer loop is exhausted: the
\* statistics are fixed up and the elapsed time is taken.
Finalize ==
    /\ pc = "loop"
    /\ ci > Len(exercise_dirs)
    /\ \E secs \in Elapsed :
          report' = [report EXCEPT !.total_exercations = FinalTotal(report),
                                   !.total_time = secs]
    /\ Goto("clean")
    /\ lastCmds' = << >>
    /\ input' = << >>
    /\ lastQuit' = NoQuit
    /\ UNCHANGED << envVars, scanErr, exercise_dirs, loopVars, reportFile, toolRun,
                    cleanVars >>

\* The entries of the exercises directory that are directories.
Dirs == {i \in 1..Len(entries) : is_dir(i)}

\* Mutant of CleanTargetDirs: an error of the cleanup ends the session with
\* exit code 1 before the report is saved.
CleanTargetDirs_fatal ==
    /\ pc = "clean"
    /\ cleanRan' = TRUE
    /\ \E readOk \in BOOLEAN :
          IF readOk
          THEN \E T \in SUBSET Dirs :
                  \E F \in SUBSET T :
                     LET walk == CleanWalk(1, T, F)
                     IN  /\ targets' = T
                         /\ attempted' = walk.attempted
                         /\ cleanErr' = walk.err
          ELSE /\ targets' = {}
               /\ attempted' = {}
               /\ cleanErr' = TRUE
    /\ IF cleanErr' THEN Exit("1") ELSE Goto("save")
    /\ UNCHANGED << envVars, scanErr, exercise_dirs, loopVars, report, reportFile,
                    unitVars, toolRun >>

\* main, lines 148-151: clean_target_dirs; its error is only printed.  The
\* listing of the exercises directory may fail to be read; otherwise any of
\* its directories may hold a target directory, and any removal may fail.
CleanTargetDirs ==
    /\ pc = "clean"
    /\ cleanRan' = TRUE
    /\ \E readOk \in BOOLEAN :
          IF readOk
          THEN \E T \in SUBSET Dirs :
                  \E F \in SUBSET T :
                     LET walk == CleanWalk(1, T, F)
                     IN  /\ targets' = T
                         /\ attempted' = walk.attempted
                         /\ cleanErr' = walk.err
          ELSE /\ targets' = {}
               /\ attempted' = {}
               /\ cleanErr' = TRUE
    /\ Goto("save")
    /\ UNCHANGED << envVars, scanErr, exercise_dirs, loopVars, report, reportFile,
                    unitVars, toolRun >>

\* main, lines 153-163: save_report_to_json; its error is only printed, and
\* main returns.  The record of the walk of clean_target_dirs ends here.
SaveReport ==
    /\ pc = "save"
    /\ \E ok \in BOOLEAN :
          reportFile' = IF ok THEN [written |-> TRUE, content |-> report] ELSE reportFile
    /\ Exit("0")
    /\ targets' = {}
    /\ attempted' = {}
    /\ UNCHANGED << envVars, scanErr, exercise_dirs, loopVars, report, unitVars, toolRun,
                    cleanRan, cleanErr >>

Next ==
    \/ ParseArgs
    \/ ScanDirectory
    \/ Dispatch
    \/ WatchContainer
    \/ AllContainer
    \/ WatchSingleFile
    \/ AllSingleFile
    \/ PrintCompilerOutput
    \/ PrintCargoTestOutput
    \/ AskToContinue
    \/ Finalize
    \/ CleanTargetDirs
    \/ SaveReport

Spec == Init /\ [][Next]_vars

----------------------------------------------------------------------------
\* Properties.

Exercises == report.exercises
LastResult == Exercises[Len(Exercises)]

\* The statistics have been finalized (main is past line 146).
Finalized == pc \in {"clean", "save"} \/ (pc = "exited" /\ exitCode = "0")

\* The unit just evaluated is a Cargo project, resp. a single file.
ProjectEvaluated == lastCmds # << >> /\ lastCmds[1].cmd = "cargo build"
FileEvaluated == lastCmds # << >> /\ lastCmds[1].cmd = "rustc"

\* Every command of the evaluation of the current unit succeeded.
AllSucceeded == \A i \in 1..Len(lastCmds) : lastCmds[i].outcome = "ok"

\* The number of results recorded for the files of directory d.
FileResultsOf(d) ==
    Cardinality({i \in 1..Len(Exercises) :
                    Len(Exercises[i].name) = 2 /\ Exercises[i].name[1] = d})

\* C1: in every session that reaches finalization, the finalized statistics
\* (those of the report in memory and those of the report written) satisfy
\* total_exercations = total_succeeds + total_failures.
C1_TotalIsSum ==
    /\ Finalized =>
          report.total_exercations = report.total_succeeds + report.total_failures
    /\ reportFile.written =>
          reportFile.content.total_exercations =
             reportFile.content.total_succeeds + reportFile.content.total_failures

\* A report with a success and a failure has been written.
C1_Witness ==
    /\ reportFile.written
    /\ reportFile.content.total_succeeds >= 1
    /\ reportFile.content.total_failures >= 1

\* C2: for every Project unit, in both modes, the verdict recorded is the
\* conjunction of the successes of cargo build, cargo test and cargo clippy.
C2_ProjectVerdictIsConjunction ==
    ProjectEvaluated =>
       /\ Len(lastCmds) = 3
       /\ LastResult.name = DirName(exercise_dirs[ci - 1])
       /\ LastResult.result =
             (/\ lastCmds[1].outcome = "ok"
              /\ lastCmds[2].outcome = "ok"
              /\ lastCmds[3].outcome = "ok")

\* A project whose build and test pass and whose clippy fails is recorded as
\* failed after a project whose three commands pass was recorded as passed.
C2_Witness ==
    /\ ProjectEvaluated
    /\ lastCmds[1].outcome = "ok"
    /\ lastCmds[2].outcome = "ok"
    /\ lastCmds[3].outcome = "fail"
    /\ Len(Exercises) = 2
    /\ Exercises[1].result
    /\ ~Exercises[2].result

\* C3: for every SingleFile unit whose compile step fails (rustc exits with a
\* failure or cannot be launched), the evaluation runs no further command (the
\* produced artifact is not executed) and the verdict recorded is false.
C3_CompileFailureStops ==
    (FileEvaluated /\ lastCmds[1].outcome # "ok") =>
       /\ Len(lastCmds) = 1
       /\ ~LastResult.result

\* A file whose compilation exited with a failure has been recorded.
C3_Witness ==
    /\ FileEvaluated
    /\ lastCmds[1].outcome = "fail"
    /\ Len(LastResult.name) = 2
    /\ ~LastResult.result

\* C4: for every SingleFile unit the verdict recorded is true iff rustc and the
\* execution of the compiled file both succeed, whatever was recorded before
\* it; and recording a unit changes no result recorded before it.
C4_FileVerdictInv ==
    FileEvaluated =>
       /\ Len(LastResult.name) = 2
       /\ LastResult.result = (Len(lastCmds) = 2 /\ AllSucceeded)

C4_EarlierResultsKept ==
    /\ Len(Exercises') >= Len(Exercises)
    /\ \A i \in 1..Len(Exercises) : Exercises'[i] = Exercises[i]

C4_FileVerdictIsOwn == []C4_FileVerdictInv /\ [][C4_EarlierResultsKept]_vars

\* A file passes right after a file of the same container failed.
C4_Witness ==
    /\ FileEvaluated
    /\ Len(Exercises) >= 2
    /\ LastResult.result
    /\ ~Exercises[Len(Exercises) - 1].result
    /\ Exercises[Len(Exercises) - 1].name[1] = LastResult.name[1]
    /\ Len(Exercises[Len(Exercises) - 1].name) = 2

\* C5: in watch mode, a quit read after the k-th file of a container leaves
\* exactly k results recorded for that container, and main goes on with the
\* next container: the quit does not end the session.
C5_QuitInv ==
    lastQuit # NoQuit =>
       /\ mode = "watch"
       /\ FileResultsOf(lastQuit.dir) = lastQuit.files
       /\ \A j \in 1..Len(exercise_dirs) : exercise_dirs[j] = lastQuit.dir => ci > j

C5_QuitStep ==
    (lastQuit' # lastQuit /\ lastQuit' # NoQuit) =>
       /\ pc' = "loop"
       /\ ci' = ci + 1
       /\ exitCode' = "running"
       /\ report' = report

C5_QuitTruncatesContainer == []C5_QuitInv /\ [][C5_QuitStep]_vars

\* The user quit after the first of several files of a container, and a unit
\* of a later container has been recorded since.
C5_Witness ==
    /\ lastQuit # NoQuit
    /\ lastQuit.files = 1
    /\ Len(get_rs_files_in_directory(lastQuit.dir)) > 1
    /\ FileResultsOf(lastQuit.dir) = 1
    /\ LastResult.name[1] > lastQuit.dir

\* C6: a toolchain executable that cannot be launched is never escalated to a
\* fatal error of the process: no panic ends the session over it, and the unit
\* whose evaluation could not launch a command is recorded as failed.
C6_LaunchFailureNotFatal ==
    /\ panicMsg \notin {"Failed to execute rustc", "Failed to execute cargo test"}
    /\ (lastCmds # << >> /\ ~AllSucceeded) => ~LastResult.result

\* C7: when the scan of the exercises directory fails, the process exits with a
\* non-zero code before any iteration: no unit is evaluated or recorded, no
\* command is spawned, no cleanup runs and no report is written.
C7_ScanFailureAborts ==
    scanErr =>
       /\ pc = "exited"
       /\ exitCode = "1"
       /\ ci = 0
       /\ Exercises = << >>
       /\ ~toolRun
       /\ ~cleanRan
       /\ ~reportFile.written

\* The scan failed in a session started with a valid mode.
C7_Witness ==
    /\ scanErr
    /\ mode \in {"watch", "all"}
    /\ pc = "exited"

\* C8: when the mode selector is missing or is neither "watch" nor "all", main
\* never enters a loop, evaluates no unit, writes no report, and the process
\* exits with a non-zero code.
C8_UsageErrorIsFatal ==
    mode \notin {"watch", "all"} =>
       /\ pc \in {"start", "scan", "dispatch", "exited"}
       /\ pc = "exited" => exitCode = "1"
       /\ Exercises = << >>
       /\ ~toolRun
       /\ ~cleanRan
       /\ ~reportFile.written

\* An unknown mode ended the process after a successful scan of a directory
\* that holds exercises.
C8_Witness ==
    /\ mode = "other"
    /\ pc = "exited"
    /\ exitCode = "1"
    /\ ~scanErr
    /\ exercise_dirs # << >>

\* C9: the exit code is 0 for every session started with a valid mode and a
\* readable exercises directory.
C9_ExitZero ==
    (pc = "exited" /\ mode \in {"watch", "all"} /\ ~scanErr) => exitCode = "0"

\* C10: at the end of the session, cleanup has been attempted for every
\* directory of the exercises directory that holds a target directory, also
\* for those listed after a directory whose removal failed.
C10_CleanupAttemptsAll ==
    pc = "save" => targets \subseteq attempted


\* The units of the exercise tree: the directories holding Cargo.toml, and the
\* .rs files of the readable directories that hold none.
ProjectUnits == {<< d >> : d \in {i \in 1..Len(entries) : is_dir(i) /\ entries[i].cargo}}
FileUnits ==
    UNION {{<< d, j >> : j \in {k \in 1..Len(entries[d].files) : entries[d].files[k] = "rs"}} :
              d \in {i \in 1..Len(entries) :
                        is_dir(i) /\ ~entries[i].cargo /\ entries[i].readable}}
Units == ProjectUnits \cup FileUnits

\* The name is that of a unit of the tree.
IsUnit(name) ==
    /\ name[1] \in 1..Len(entries)
    /\ is_dir(name[1])
    /\ IF Len(name) = 1
       THEN entries[name[1]].cargo
       ELSE /\ ~entries[name[1]].cargo
            /\ entries[name[1]].readable
            /\ name[2] \in 1..Len(entries[name[1]].files)
            /\ entries[name[1]].files[name[2]] = "rs"

\* Discovery order of two units: by container in the order of the root
\* listing, then by file in the order of the listing of the container.
DiscoveredBefore(a, b) ==
    \/ a[1] < b[1]
    \/ a[1] = b[1] /\ Len(a) = 2 /\ Len(b) = 2 /\ a[2] < b[2]

\* The names recorded in the report.
RecordedNames == {Exercises[i].name : i \in 1..Len(Exercises)}

\* C11: each result of the report is that of a unit of the tree, no unit has
\* two results, the results are in discovery order (containers in root-scan
\* order, files in listing order: each result is discovered before the next,
\* an order that is transitive), and a batch session that reaches the end of
\* its iteration has recorded every unit.
C11_OneResultPerUnitInOrder ==
    /\ \A i \in 1..Len(Exercises) : IsUnit(Exercises[i].name)
    /\ \A i \in 1..(Len(Exercises) - 1) :
          DiscoveredBefore(Exercises[i].name, Exercises[i + 1].name)
    /\ (mode = "all" /\ Finalized) => RecordedNames = Units

\* A batch session wrote a report with a project and two files of a later
\* container, in that order.
C11_Witness ==
    /\ mode = "all"
    /\ reportFile.written
    /\ Len(reportFile.content.exercises) = 3
    /\ Len(reportFile.content.exercises[1].name) = 1
    /\ reportFile.content.exercises[2].name = << 2, 1 >>
    /\ reportFile.content.exercises[3].name = << 2, 2 >>

\* The number of results of the report with verdict v.
Tally(r, v) == Cardinality({i \in 1..Len(r.exercises) : r.exercises[i].result = v})

\* C12: the counters are the tally of the results recorded: total_succeeds
\* the number of true results, total_failures the number of false ones, and,
\* once finalized, total_exercations the number of results.
C12_StatisticsAreTally ==
    /\ report.total_succeeds = Tally(report, TRUE)
    /\ report.total_failures = Tally(report, FALSE)
    /\ Finalized => report.total_exercations = Len(Exercises)
    /\ reportFile.written =>
          /\ reportFile.content.total_exercations = Len(reportFile.content.exercises)
          /\ reportFile.content.total_succeeds = Tally(reportFile.content, TRUE)
          /\ reportFile.content.total_failures = Tally(reportFile.content, FALSE)

\* The scenario of the specification: a project that fails (its clippy fails)
\* and a container of two files, the first passing and the second failing,
\* give 3 exercises, 1 success and 2 failures.
C12_Witness ==
    /\ reportFile.written
    /\ Len(entries) = 2
    /\ entries[1].cargo
    /\ entries[2].files = << "rs", "rs" >>
    /\ Len(reportFile.content.exercises) = 3
    /\ ~reportFile.content.exercises[1].result
    /\ reportFile.content.exercises[2].result
    /\ ~reportFile.content.exercises[3].result
    /\ reportFile.content.total_exercations = 3
    /\ reportFile.content.total_succeeds = 1
    /\ reportFile.content.total_failures = 2


\* The session is at one of the steps that only watch mode has after a unit:
\* the two diagnostic printouts and the question whether to continue.
Prompting == pc \in {"print_compiler", "print_cargo", "ask"}

\* C13: a Cargo project is evaluated and recorded in watch mode as in all
\* mode, and never prompts: in either mode the state after a project holds its
\* result, the conjunction of its three commands, under the name of the
\* container, with the loop at the next container and no line read; the
\* diagnostics and the prompt occur only in watch mode for a file of a
\* container that holds no Cargo.toml.
C13_ProjectNeverPrompts ==
    /\ Prompting => /\ mode = "watch"
                    /\ ~entries[CurDir].cargo
                    /\ LastResult.name = FileName(CurDir, CurFile)
    /\ ProjectEvaluated =>
          /\ mode \in {"watch", "all"}
          /\ pc = "loop"
          /\ input = << >>
          /\ ci > 1
          /\ LastResult.name = DirName(exercise_dirs[ci - 1])
          /\ LastResult.result = AllSucceeded

\* Watch mode has just recorded a project as the second container, after a
\* file of the first, without a prompt in between.
C13_Witness ==
    /\ mode = "watch"
    /\ ProjectEvaluated
    /\ Len(Exercises) = 2
    /\ Exercises[1].name = << 1, 1 >>
    /\ Exercises[2].name = << 2 >>
    /\ pc = "loop"
    /\ ci = 3


\* Directory d is a container with nothing to evaluate: it holds no
\* Cargo.toml, and its listing cannot be read or names no .rs file.
EmptyContainer(d) ==
    /\ is_dir(d)
    /\ ~entries[d].cargo
    /\ \/ ~entries[d].readable
       \/ \A k \in 1..Len(entries[d].files) : entries[d].files[k] # "rs"

\* The loop is about to visit an empty container.
AtEmptyContainer == pc = "loop" /\ ci <= Len(exercise_dirs) /\ EmptyContainer(CurDir)

\* C14: a container with no Cargo.toml and no .rs file, or whose listing
\* cannot be read, contributes nothing: the step that visits it leaves the
\* report (results and counters) as it was, runs no tool, raises no error and
\* moves the loop to the next container.
C14_EmptyContainerStep ==
    AtEmptyContainer =>
       /\ report' = report
       /\ toolRun' = toolRun
       /\ exitCode' = "running"
       /\ panicMsg' = panicMsg
       /\ pc' = "loop"
       /\ ci' = ci + 1
C14_EmptyContainerSkipped == [][C14_EmptyContainerStep]_vars

\* An unreadable container and one that lists a single file that is not a
\* .rs file have both been visited, and the report is still empty.
C14_Witness ==
    /\ pc = "loop"
    /\ ci = 3
    /\ Len(exercise_dirs) = 2
    /\ ~entries[exercise_dirs[1]].readable
    /\ entries[exercise_dirs[2]].files = << "other" >>
    /\ Exercises = << >>
    /\ report.total_succeeds = 0
    /\ report.total_failures = 0
    /\ exitCode = "running"


\* The report as save_report_to_json serializes it when it succeeds.
Saved == [written |-> TRUE, content |-> report]

\* After a failed cleanup the session is at the save of the report or has
\* ended with exit code 0, and a report file written holds the report.
C15_CleanupFailureInv ==
    cleanErr =>
       /\ cleanRan
       /\ pc \in {"save", "exited"}
       /\ panicMsg = "none"
       /\ pc = "exited" => exitCode = "0"
       /\ (pc = "exited" /\ reportFile.written) => reportFile.content = report

\* The cleanup, failing or not, leaves the report as finalized and goes on to
\* the save; the save after a failed cleanup writes that very report (unless
\* the write itself fails) and ends the session with exit code 0.
C15_CleanupFailureStep ==
    /\ pc = "clean" =>
          /\ report' = report
          /\ pc' = "save"
          /\ exitCode' = "running"
    /\ (pc = "save" /\ cleanErr) =>
          /\ report' = report
          /\ reportFile' \in {Saved, reportFile}
          /\ pc' = "exited"
          /\ exitCode' = "0"

\* C15: a failure of the cleanup is reported but does not fail the session:
\* the report is still saved, with every result and with the statistics as
\* finalized, and the exit code is 0.
C15_CleanupFailureNotFatal == []C15_CleanupFailureInv /\ [][C15_CleanupFailureStep]_vars

\* The cleanup failed, and the session ended with exit code 0 and a report
\* file holding a successful and a failed result.
C15_Witness ==
    /\ cleanErr
    /\ pc = "exited"
    /\ exitCode = "0"
    /\ reportFile.written
    /\ reportFile.content = report
    /\ Len(Exercises) = 2
    /\ report.total_succeeds = 1
    /\ report.total_failures = 1
    /\ report.total_exercations = 2


\* C16: (as stated) a session's Statistics are determined by its mode, the
\* exercise tree, the command outcomes and the decisions: of two sessions in
\* the same state about to finalize, both get the same total_time.
C16_StatisticsDetermined ==
    \A t1 \in Elapsed, t2 \in Elapsed :
       (/\ ENABLED (Finalize /\ report'.total_time = t1)
        /\ ENABLED (Finalize /\ report'.total_time = t2)) => t1 = t2

\* The unit the loop is at: the container itself at the outer loop, the
\* current file at the inner loop.
UnitAt == IF pc = "loop" THEN DirName(CurDir) ELSE FileName(CurDir, CurFile)

\* The report after one more result under the given name with the given
\* verdict, counted once.
Recorded(r, name, verdict) ==
    [exercises |-> Append(r.exercises, [name |-> name, result |-> verdict]),
     user_name |-> r.user_name,
     total_exercations |-> r.total_exercations,
     total_succeeds |-> r.total_succeeds + (IF verdict THEN 1 ELSE 0),
     total_failures |-> r.total_failures + (IF verdict THEN 0 ELSE 1),
     total_time |-> r.total_time]

\* The step evaluated a unit: it left the outer or the inner loop's head with
\* the outcomes of the unit's commands.
RanCommands == pc \in {"loop", "file"} /\ lastCmds' # << >>

\* Every step changes the report as a function of the state and of the
\* outcomes of the commands it ran: a step that ran commands appends the
\* unit at hand with the conjunction of their outcomes and counts it; the
\* finalization determines every field but total_time; any other step
\* leaves the report alone.
C16_ReportStep ==
    /\ RanCommands => report' = Recorded(report, UnitAt, AllSucceeded')
    /\ (pc = "loop" /\ pc' = "clean") =>
          /\ report'.exercises = report.exercises
          /\ report'.user_name = report.user_name
          /\ report'.total_succeeds = report.total_succeeds
          /\ report'.total_failures = report.total_failures
          /\ report'.total_exercations = Tally(report, TRUE) + Tally(report, FALSE)
    /\ (~RanCommands /\ ~(pc = "loop" /\ pc' = "clean")) => report' = report

\* C16 (amended): the exercises list (names and verdicts, in order) and the
\* three counters are determined by the mode, the tree, the command outcomes
\* and the decisions; total_time is not.
C16_VerdictsDetermined == [][C16_ReportStep]_vars

\* A watch session finalized a report of a failed and a passed unit, with an
\* elapsed time of one second where another session measures zero.
C16_Witness ==
    /\ mode = "watch"
    /\ pc = "clean"
    /\ Len(Exercises) = 2
    /\ ~Exercises[1].result
    /\ Exercises[2].result
    /\ report.total_exercations = 2
    /\ report.total_succeeds = 1
    /\ report.total_failures = 1
    /\ report.total_time = 1


\* The names of the commands of the unit just evaluated, in the order issued.
CmdsIssued == [i \in 1..Len(lastCmds) |-> lastCmds[i].cmd]

\* C17: the evaluation of a project issues cargo build, cargo test and cargo
\* clippy, in this order, whatever the outcome of the earlier ones: test and
\* clippy run after a failed build, clippy after a failed test.
C17_ThreeCommandsInOrder ==
    ProjectEvaluated => CmdsIssued = << "cargo build", "cargo test", "cargo clippy" >>

\* A project whose build and test both failed still had clippy run, and
\* was recorded as failed.
C17_Witness ==
    /\ ProjectEvaluated
    /\ lastCmds[1].outcome = "fail"
    /\ lastCmds[2].cmd = "cargo test"
    /\ lastCmds[2].outcome = "fail"
    /\ lastCmds[3].cmd = "cargo clippy"
    /\ lastCmds[3].outcome = "ok"
    /\ ~LastResult.result


\* C18: in watch mode the result of a file is appended and counted before
\* the question whether to continue is asked, and one decision is read for
\* every file evaluated: from its evaluation until its decision is read the
\* session is on its way to the question or at it (a failure to read the line
\* set aside).
C18_OneDecisionPerUnit ==
    /\ pc = "ask" =>
          /\ LastResult.name = FileName(CurDir, CurFile)
          /\ report.total_succeeds + report.total_failures = Len(Exercises)
    /\ (mode = "watch" /\ FileEvaluated /\ panicMsg # "read_line") => Prompting

\* The panic of one of the two diagnostic printouts ended the session.
DiagnosticsPanicked ==
    panicMsg \in {"Failed to execute rustc", "Failed to execute cargo test"}

\* C19: a session started with a valid mode and a readable exercises
\* directory, whose commands all return and whose questions are all answered,
\* ends only through the finalization: the cleanup has run and main has
\* returned.
C19_EndsThroughFinalization ==
    (/\ pc = "exited"
     /\ mode \in {"watch", "all"}
     /\ ~scanErr
     /\ panicMsg # "read_line") => (cleanRan /\ panicMsg = "none")

\* The session is over, for better or worse, without the user having quit a
\* container: the outer loop is exhausted, or a diagnostic printout panicked.
EndedWithoutQuit ==
    /\ lastQuit = NoQuit
    /\ \/ pc = "loop" /\ ci > Len(exercise_dirs)
       \/ pc = "exited" /\ DiagnosticsPanicked

\* C20: a watch session in which the user never quits records what an all
\* session records on the same tree, a result for every unit of the tree; the
\* diagnostic runs of watch mode take nothing away from it.
C20_WatchRecordsAsBatch ==
    (mode = "watch" /\ EndedWithoutQuit) => RecordedNames = Units

====
